---- MODULE Spec2Model ----
(***************************************************************************)
(* A model of namecheap-checker.py: one run of the pipeline                *)
(*   configuration check -> get_domains() -> display_domains().            *)
(* The state is the environment the run reads (configuration, the HTTP     *)
(* response, the clock), the values the run computes (domains,             *)
(* sorted_domains, the four report views), the diagnostic file and the     *)
(* process exit code.                                                      *)
(***************************************************************************)
EXTENDS Integers, Sequences, FiniteSets

(***************************************************************************)
(* Values.  Python's None is the string "None" where the other values of   *)
(* the field are strings, and a record of shape "None" where they are      *)
(* records.                                                                *)
(***************************************************************************)
None == "None"

\* The largest number of Domain elements in a response with Status "OK".
MaxDomains == 2

\* The largest number of Domain elements in a response that is refused
\* (transport status not 200, or Status not "OK").
MaxRefusedDomains == 1

(***************************************************************************)
(* Dates.  A datetime is [year, month, day, hour]; minutes and seconds are *)
(* zero in every input of the model.  NoneDate is Python's None in the     *)
(* place of a datetime (year 0 is below datetime.MINYEAR).                 *)
(***************************************************************************)
NoneDate == [year |-> 0, month |-> 0, day |-> 0, hour |-> 0]

IsLeap(y) == (y % 4 = 0) /\ ((y % 100 # 0) \/ (y % 400 = 0))

DaysInMonth(y, m) ==
    IF m = 2 THEN (IF IsLeap(y) THEN 29 ELSE 28)
    ELSE IF m \in {4, 6, 9, 11} THEN 30 ELSE 31

RECURSIVE DaysBeforeMonth(_, _)
DaysBeforeMonth(y, m) ==
    IF m <= 1 THEN 0 ELSE DaysBeforeMonth(y, m - 1) + DaysInMonth(y, m - 1)

DaysBeforeYear(y) ==
    LET p == y - 1 IN p * 365 + (p \div 4) - (p \div 100) + (p \div 400)

\* datetime.toordinal(): the day number in the proleptic Gregorian calendar.
ToOrdinal(dt) == DaysBeforeYear(dt.year) + DaysBeforeMonth(dt.year, dt.month) + dt.day

\* (a - b).days: a timedelta is normalised so that 0 <= seconds < 86400,
\* which makes .days the floor of the difference in days.
TimedeltaDays(a, b) ==
    LET hours == (ToOrdinal(a) - ToOrdinal(b)) * 24 + (a.hour - b.hour)
    IN  IF hours >= 0 THEN hours \div 24 ELSE -((23 - hours) \div 24)

\* The order of datetimes is the order of their fields, most significant first.
DateKey(dt) == <<dt.year, dt.month, dt.day, dt.hour>>

(***************************************************************************)
(* Date strings.  A string is modelled by its lexical shape and the        *)
(* numbers written in it:                                                  *)
(*   "m/d/Y"  12/31/2025       "m/d/y"  12/31/25                           *)
(*   "Y-m-dTH:M:S"  2026-03-02T18:00:00      "Y-m-d"  2026-03-01           *)
(*   "text"   any other non-empty text, "empty" the empty string,          *)
(*   "None"   the attribute is absent.                                     *)
(* In shape "m/d/y" the field year holds the two digits written.           *)
(***************************************************************************)
DateStr(shape, y, m, d, h) == [shape |-> shape, year |-> y, month |-> m, day |-> d, hour |-> h]

NoneStr == DateStr("None", 0, 0, 0, 0)

\* The shape each strptime format accepts.
ShapeOf(fmt) ==
    CASE fmt = "%m/%d/%Y" -> "m/d/Y"
      [] fmt = "%m/%d/%y" -> "m/d/y"
      [] fmt = "%Y-%m-%dT%H:%M:%S" -> "Y-m-dTH:M:S"
      [] fmt = "%Y-%m-%d" -> "Y-m-d"

\* %y: Python's strptime reads 69..99 as 1969..1999 and 00..68 as 2000..2068.
FullYear(fmt, y) ==
    IF fmt = "%m/%d/%y" THEN (IF y < 69 THEN 2000 + y ELSE 1900 + y) ELSE y

\* datetime.strptime(date_str, fmt): the datetime, or NoneDate for ValueError.
Strptime(s, fmt) ==
    LET y == FullYear(fmt, s.year)
    IN  IF /\ s.shape = ShapeOf(fmt)
           /\ y >= 1
           /\ s.month \in 1..12
           /\ s.day \in 1..DaysInMonth(y, s.month)
           /\ s.hour \in 0..23
        THEN [year |-> y, month |-> s.month, day |-> s.day, hour |-> s.hour]
        ELSE NoneDate

Formats == <<"%m/%d/%Y", "%m/%d/%y", "%Y-%m-%dT%H:%M:%S", "%Y-%m-%d">>

\* The loop of parse_date over the formats from position i on.
RECURSIVE TryFormats(_, _)
TryFormats(s, i) ==
    IF i > Len(Formats) THEN NoneDate
    ELSE IF Strptime(s, Formats[i]) # NoneDate THEN Strptime(s, Formats[i])
    ELSE TryFormats(s, i + 1)

\* `if not date_str`: None and the empty string.
Falsy(s) == s.shape \in {"None", "empty"}

parse_date(s) == IF Falsy(s) THEN NoneDate ELSE TryFormats(s, 1)

(***************************************************************************)
(* sorted(xs, key=...): Python's sort is stable.  Keys are tuples of       *)
(* integers, compared as Python compares tuples.                           *)
(***************************************************************************)
RECURSIVE LexLess(_, _)
LexLess(a, b) ==
    IF a = <<>> \/ b = <<>> THEN a = <<>> /\ b # <<>>
    ELSE IF Head(a) # Head(b) THEN Head(a) < Head(b)
    ELSE LexLess(Tail(a), Tail(b))

\* A sort that is not stable: the element goes before the elements of equal key.
InsertAtBeforeEqual(acc, k) ==
    IF \E i \in 1..Len(acc) : ~LexLess(acc[i].key, k)
    THEN CHOOSE i \in 1..Len(acc) :
            /\ ~LexLess(acc[i].key, k)
            /\ \A j \in 1..(i - 1) : LexLess(acc[j].key, k)
    ELSE Len(acc) + 1

\* Where an element of key k goes in the sorted sequence acc: after every
\* element whose key is not greater than k.
InsertAt(acc, k) ==
    IF \E i \in 1..Len(acc) : LexLess(k, acc[i].key)
    THEN CHOOSE i \in 1..Len(acc) :
            /\ LexLess(k, acc[i].key)
            /\ \A j \in 1..(i - 1) : ~LexLess(k, acc[j].key)
    ELSE Len(acc) + 1

RECURSIVE SortPairs(_, _)
SortPairs(acc, rest) ==
    IF rest = <<>> THEN acc
    ELSE LET e == Head(rest)
             i == InsertAt(acc, e.key)
         IN  SortPairs(SubSeq(acc, 1, i - 1) \o <<e>> \o SubSeq(acc, i, Len(acc)), Tail(rest))

\* xs is a sequence of [key, val]; the result is the vals in sorted order.
Sorted(xs) == LET r == SortPairs(<<>>, xs) IN [i \in 1..Len(r) |-> r[i].val]

(***************************************************************************)
(* The inputs of a run.                                                    *)
(*                                                                         *)
(* A Domain element of the response carries the attributes the report      *)
(* reads: ID, Name, Expires, AutoRenew, IsLocked, WhoisGuard (User,         *)
(* Created and the other flags are printed or ignored, never computed      *)
(* with).  IDs are the positions of the elements in the response.          *)
(***************************************************************************)
Element(name, expires, auto, locked, whois) ==
    [ID |-> 0, Name |-> name, Expires |-> expires, AutoRenew |-> auto,
     IsLocked |-> locked, WhoisGuard |-> whois]

\* Expires attributes around the clock values of Clock below.
ExpiresInputs ==
    { DateStr("m/d/Y", 2025, 12, 1, 0),          \* 12/01/2025
      DateStr("m/d/Y", 2025, 12, 2, 0),          \* 12/02/2025
      DateStr("m/d/y", 25, 12, 16, 0),           \* 12/16/25
      DateStr("m/d/Y", 2025, 12, 31, 0),         \* 12/31/2025
      DateStr("m/d/y", 25, 12, 31, 0),           \* 12/31/25
      DateStr("m/d/Y", 2026, 1, 1, 0),           \* 01/01/2026
      DateStr("Y-m-d", 2026, 3, 1, 0),           \* 2026-03-01
      DateStr("m/d/Y", 2026, 3, 2, 0),           \* 03/02/2026
      DateStr("Y-m-dTH:M:S", 2026, 3, 2, 18),    \* 2026-03-02T18:00:00
      DateStr("m/d/Y", 2024, 10, 27, 0),         \* 10/27/2024
      DateStr("Y-m-d", 2027, 1, 15, 0),          \* 2027-01-15
      DateStr("m/d/y", 99, 1, 15, 0),            \* 01/15/99
      DateStr("m/d/Y", 2026, 2, 30, 0),          \* 02/30/2026
      DateStr("text", 0, 0, 0, 0),               \* N/A
      DateStr("empty", 0, 0, 0, 0),              \* the empty string
      NoneStr }                                  \* no Expires attribute

\* Elements whose Expires varies, the other attributes all present.
DatedElements == { Element("name", e, "true", "true", "ENABLED") : e \in ExpiresInputs }

\* Elements whose other attributes vary: present, different, or absent.
AttributeElements ==
    { Element(nw[1], e, a, None, nw[2]) :
        nw \in {<<"name", "NOTPRESENT">>, <<"name", None>>, <<None, "ENABLED">>},
        e \in {DateStr("m/d/Y", 2025, 12, 2, 0), NoneStr},
        a \in {"false", None} }

Elements == DatedElements \cup AttributeElements

WithIDs(es) == [i \in 1..Len(es) |-> [es[i] EXCEPT !.ID = i]]

ElementLists(n) == { WithIDs(es) : es \in UNION { [1..k -> Elements] : k \in 0..n } }

\* response.text: malformed, or well-formed XML with a Status and Domain elements.
MalformedText == [wellformed |-> FALSE, Status |-> None, elements |-> <<>>]

XmlText(status, es) == [wellformed |-> TRUE, Status |-> status, elements |-> es]

OkTexts == { XmlText("OK", es) : es \in ElementLists(MaxDomains) }

RefusedTexts ==
    { XmlText(st, es) : st \in {"ERROR", None}, es \in ElementLists(MaxRefusedDomains) }

SmallOkTexts == { XmlText("OK", es) : es \in ElementLists(MaxRefusedDomains) }

Responses ==
    { [status_code |-> 200, text |-> t] : t \in OkTexts \cup RefusedTexts \cup {MalformedText} }
    \cup
    { [status_code |-> c, text |-> t] :
        c \in {404, 500}, t \in SmallOkTexts \cup RefusedTexts \cup {MalformedText} }

NoResponse == [status_code |-> 0, text |-> MalformedText]

\* os.getenv: None when the variable is not set, else its value.
EnvValues == {None, "", "set"}

\* datetime.now() at report time.
Clock ==
    { [year |-> 2025, month |-> 12, day |-> 1, hour |-> 0],
      [year |-> 2025, month |-> 12, day |-> 1, hour |-> 12] }

(***************************************************************************)
(* The state of a run.                                                     *)
(***************************************************************************)
VARIABLES
    API_KEY, API_USER, CLIENT_IP,  \* the configuration read at start-up
    pc,              \* where the run is
    requests,        \* HTTP requests issued
    response,        \* what requests.get returned
    file,            \* api_response.xml: <<>> until written, then <<text>>
    domains,         \* the list get_domains returned
    sorted_domains,  \* display_domains: the sorted list
    today,           \* display_domains: datetime.now()
    listing,         \* the rows printed by the sorted listing
    upcoming,        \* the rows printed by the upcoming-renewals view
    stats,           \* the numbers printed by the statistics view
    calendar,        \* the groups printed by the calendar view
    views,           \* the report sections printed, in order
    ran,             \* the steps executed
    error,           \* the unhandled exception that ended the run
    exit_code        \* the exit status of the process

vars == <<API_KEY, API_USER, CLIENT_IP, pc, requests, response, file, domains,
          sorted_domains, today, listing, upcoming, stats, calendar, views, ran,
          error, exit_code>>

config == <<API_KEY, API_USER, CLIENT_IP>>
fetched == <<requests, response, file, domains>>
report == <<sorted_domains, today, listing, upcoming, stats, calendar, views>>

\* exit_code while the process runs.
Running == 0 - 1

NoStats == [total |-> 0, auto_renew |-> 0, locked |-> 0, whois_guard_enabled |-> 0,
            auto_renew_pct |-> 0, locked_pct |-> 0, whois_guard_pct |-> 0]

Init ==
    /\ API_KEY \in EnvValues
    /\ API_USER \in EnvValues
    /\ CLIENT_IP \in EnvValues
    /\ pc = "main"
    /\ requests = 0
    /\ response = NoResponse
    /\ file = <<>>
    /\ domains = <<>>
    /\ sorted_domains = <<>>
    /\ today = NoneDate
    /\ listing = <<>>
    /\ upcoming = <<>>
    /\ stats = NoStats
    /\ calendar = <<>>
    /\ views = <<>>
    /\ ran = {}
    /\ error = None
    /\ exit_code = Running

\* The process ends: exit(1), the end of the script, or an unhandled
\* exception, which makes the interpreter print a traceback and exit with 1.
Exit(code, exc) ==
    /\ pc' = "exited"
    /\ exit_code' = code
    /\ error' = exc

Raise(exc) == Exit(1, exc)

Goto(next) ==
    /\ pc' = next
    /\ UNCHANGED <<exit_code, error>>

(***************************************************************************)
(* __main__                                                                *)
(***************************************************************************)
\* `not x` for a value of os.getenv.
Unset(x) == x = None \/ x = ""

\* `and` in the place of `or`: the run goes on unless every value is missing.
ConfigMissingAll == Unset(API_KEY) /\ Unset(API_USER) /\ Unset(CLIENT_IP)

ConfigMissing == Unset(API_KEY) \/ Unset(API_USER) \/ Unset(CLIENT_IP)

\* if not API_KEY or not API_USER or not CLIENT_IP: ... exit(1)
MainExit ==
    /\ pc = "main"
    /\ ConfigMissing
    /\ Exit(1, None)
    /\ ran' = ran \cup {"main"}
    /\ UNCHANGED <<config, fetched, report>>

\* Otherwise the banner is printed and get_domains() is called.
MainFetch ==
    /\ pc = "main"
    /\ ~ConfigMissing
    /\ Goto("get_domains")
    /\ ran' = ran \cup {"main"}
    /\ UNCHANGED <<config, fetched, report>>

(***************************************************************************)
(* get_domains                                                             *)
(***************************************************************************)
\* response = requests.get(url, params=params): a response arrives.
Request ==
    /\ pc = "get_domains"
    /\ \E r \in Responses : response' = r
    /\ requests' = requests + 1
    /\ Goto("responded")
    /\ ran' = ran \cup {"request"}
    /\ UNCHANGED <<config, file, domains, report>>

\* requests.get raises (no connection, ...): nothing handles the exception.
RequestFails ==
    /\ pc = "get_domains"
    /\ requests' = requests + 1
    /\ Raise("RequestException")
    /\ ran' = ran \cup {"request"}
    /\ UNCHANGED <<config, response, file, domains, report>>

\* Only server errors are refused.
TransportFailedServerOnly(r) == r.status_code >= 500

\* if response.status_code != 200
TransportFailed(r) == r.status_code # 200

\* ... return []
TransportError ==
    /\ pc = "responded"
    /\ TransportFailed(response)
    /\ domains' = <<>>
    /\ Goto("display")
    /\ UNCHANGED <<config, requests, response, file, report, ran>>

\* The write is skipped.
FileNotWritten(old, text) == old

\* open("api_response.xml", "w") ... f.write(text): the file is overwritten.
FileAfterWrite(old, text) == <<text>>

SaveResponse ==
    /\ pc = "responded"
    /\ ~TransportFailed(response)
    /\ file' = FileAfterWrite(file, response.text)
    /\ Goto("saved")
    /\ ran' = ran \cup {"save"}
    /\ UNCHANGED <<config, requests, response, domains, report>>

\* root = ET.fromstring(response.text) raises ParseError on malformed XML.
ParseError ==
    /\ pc = "saved"
    /\ ~response.text.wellformed
    /\ Raise("ParseError")
    /\ ran' = ran \cup {"parse"}
    /\ UNCHANGED <<config, fetched, report>>

\* Only an explicit error status is refused; a missing Status passes.
ApiFailedOnError(status) == status = "ERROR"

\* status = root.attrib.get("Status"); if status != "OK"
ApiFailed(status) == status # "OK"

\* ... the errors are printed; return []
ApiError ==
    /\ pc = "saved"
    /\ response.text.wellformed
    /\ ApiFailed(response.text.Status)
    /\ domains' = <<>>
    /\ Goto("display")
    /\ ran' = ran \cup {"parse"}
    /\ UNCHANGED <<config, requests, response, file, report>>

\* The dictionary built from one Domain element.
DomainInfo(el) ==
    [ID |-> el.ID,
     name |-> el.Name,
     expires |-> el.Expires,
     is_locked |-> (el.IsLocked = "true"),
     auto_renew |-> (el.AutoRenew = "true"),
     whois_guard |-> el.WhoisGuard,
     expiry_date_obj |-> NoneDate]

ExtractDomains(es) == [i \in 1..Len(es) |-> DomainInfo(es[i])]

\* The Domain elements are extracted and returned.
Extract ==
    /\ pc = "saved"
    /\ response.text.wellformed
    /\ ~ApiFailed(response.text.Status)
    /\ domains' = ExtractDomains(response.text.elements)
    /\ Goto("display")
    /\ ran' = ran \cup {"parse"}
    /\ UNCHANGED <<config, requests, response, file, report>>

(***************************************************************************)
(* display_domains                                                         *)
(***************************************************************************)
\* The early return is missing.
NoDomainsNever(ds) == FALSE

\* if not domains
NoDomains(ds) == ds = <<>>

\* ... print("No domains found. ..."); return.  The script then ends.
DisplayEmpty ==
    /\ pc = "display"
    /\ NoDomains(domains)
    /\ views' = Append(views, "no domains")
    /\ Exit(0, None)
    /\ ran' = ran \cup {"display"}
    /\ UNCHANGED <<config, fetched, sorted_domains, today, listing, upcoming, stats, calendar>>

HasDate(d) == d.expiry_date_obj # NoneDate

\* domain["expiry_date_obj"] = parse_date(domain["expires"]), for every domain.
WithParsedDates(ds) ==
    [i \in 1..Len(ds) |-> [ds[i] EXCEPT !.expiry_date_obj = parse_date(ds[i].expires)]]

\* sorted(valid_dates, key=lambda x: x["expiry_date_obj"]) + invalid_dates
SortByExpiry(ds) ==
    LET valid_dates == SelectSeq(ds, HasDate)
        invalid_dates == SelectSeq(ds, LAMBDA d : ~HasDate(d))
    IN  Sorted([i \in 1..Len(valid_dates) |->
                  [key |-> DateKey(valid_dates[i].expiry_date_obj), val |-> valid_dates[i]]])
        \o invalid_dates

\* The dates are parsed (the dictionaries of domains are updated in place)
\* and the list is sorted.
SortDomains ==
    /\ pc = "display"
    /\ ~NoDomains(domains)
    /\ domains' = WithParsedDates(domains)
    /\ sorted_domains' = SortByExpiry(WithParsedDates(domains))
    /\ Goto("listing")
    /\ ran' = ran \cup {"display"}
    /\ UNCHANGED <<config, requests, response, file, today, listing, upcoming, stats,
                   calendar, views>>

\* The 30th day is left out of the renew-soon window.
AnnotationBelow30(days) ==
    IF 0 < days /\ days < 30 THEN "RENEW SOON!"
    ELSE IF days <= 0 THEN "EXPIRED!"
    ELSE "days left"

\* The text appended to the expiry date of a row.
Annotation(days) ==
    IF 0 < days /\ days <= 30 THEN "RENEW SOON!"
    ELSE IF days <= 0 THEN "EXPIRED!"
    ELSE "days left"

\* One row of the listing: mark "" when the record has no parsed date.
ListingRow(d, now) ==
    IF HasDate(d)
    THEN [ID |-> d.ID, mark |-> Annotation(TimedeltaDays(d.expiry_date_obj, now)),
          days |-> TimedeltaDays(d.expiry_date_obj, now)]
    ELSE [ID |-> d.ID, mark |-> "", days |-> 0]

\* f"{domain['name']:<30}" and f"{domain['whois_guard']:<15}" raise TypeError
\* when the value is None.
Unprintable(d) == d.name = None \/ d.whois_guard = None

\* The rows printed before the first row that raises.
PrintedRows(ds, now) ==
    LET n == IF \E i \in 1..Len(ds) : Unprintable(ds[i])
             THEN (CHOOSE i \in 1..Len(ds) :
                      /\ Unprintable(ds[i])
                      /\ \A j \in 1..(i - 1) : ~Unprintable(ds[j])) - 1
             ELSE Len(ds)
    IN  [i \in 1..n |-> ListingRow(ds[i], now)]

\* today = datetime.now(); one row per domain of sorted_domains.
PrintListing ==
    /\ pc = "listing"
    /\ \E now \in Clock :
          /\ today' = now
          /\ listing' = PrintedRows(sorted_domains, now)
    /\ IF \E i \in 1..Len(sorted_domains) : Unprintable(sorted_domains[i])
       THEN Raise("TypeError") /\ views' = views
       ELSE Goto("upcoming") /\ views' = Append(views, "listing")
    /\ ran' = ran \cup {"listing"}
    /\ UNCHANGED <<config, fetched, sorted_domains, upcoming, stats, calendar>>

\* The day of the report is taken into the window.
IsUpcomingFromToday(days) == 0 <= days /\ days <= 90

\* 0 < (d["expiry_date_obj"] - today).days <= 90
IsUpcoming(days) == 0 < days /\ days <= 90

Upcoming(ds, now) ==
    LET sel == SelectSeq(ds, LAMBDA d :
                   HasDate(d) /\ IsUpcoming(TimedeltaDays(d.expiry_date_obj, now)))
    IN  [i \in 1..Len(sel) |->
           [ID |-> sel[i].ID, days |-> TimedeltaDays(sel[i].expiry_date_obj, now)]]

PrintUpcoming ==
    /\ pc = "upcoming"
    /\ upcoming' = Upcoming(sorted_domains, today)
    /\ views' = Append(views, "upcoming")
    /\ Goto("statistics")
    /\ ran' = ran \cup {"upcoming"}
    /\ UNCHANGED <<config, fetched, sorted_domains, today, listing, stats, calendar>>

\* count/total*100 printed with one decimal, in tenths of a percent
\* (rounded to nearest; no input of the model falls on a tie).
Percent(count, total) == (count * 2000 + total) \div (2 * total)

Statistics(ds) ==
    LET total == Len(ds)
        auto_renew == Cardinality({i \in 1..Len(ds) : ds[i].auto_renew})
        locked == Cardinality({i \in 1..Len(ds) : ds[i].is_locked})
        whois_guard_enabled == Cardinality({i \in 1..Len(ds) : ds[i].whois_guard = "ENABLED"})
    IN  [total |-> total, auto_renew |-> auto_renew, locked |-> locked,
         whois_guard_enabled |-> whois_guard_enabled,
         auto_renew_pct |-> Percent(auto_renew, total),
         locked_pct |-> Percent(locked, total),
         whois_guard_pct |-> Percent(whois_guard_enabled, total)]

\* total = len(domains); auto_renew/total raises ZeroDivisionError for total = 0.
PrintStatistics ==
    /\ pc = "statistics"
    /\ IF Len(domains) = 0
       THEN Raise("ZeroDivisionError") /\ UNCHANGED <<stats, views>>
       ELSE /\ stats' = Statistics(domains)
            /\ views' = Append(views, "statistics")
            /\ Goto("calendar")
    /\ ran' = ran \cup {"statistics"}
    /\ UNCHANGED <<config, fetched, sorted_domains, today, listing, upcoming, calendar>>

MonthNames == <<"January", "February", "March", "April", "May", "June", "July",
                "August", "September", "October", "November", "December">>

\* strftime("%B %Y"): the label "March 2026" is <<"March", 2026>>, the two
\* parts that split() gives back.
MonthYear(dt) == <<MonthNames[dt.month], dt.year>>

month_map ==
    [n \in {"January", "February", "March", "April", "May", "June", "July", "August",
            "September", "October", "November", "December"} |->
       CASE n = "January" -> 1 [] n = "February" -> 2 [] n = "March" -> 3
         [] n = "April" -> 4 [] n = "May" -> 5 [] n = "June" -> 6
         [] n = "July" -> 7 [] n = "August" -> 8 [] n = "September" -> 9
         [] n = "October" -> 10 [] n = "November" -> 11 [] n = "December" -> 12]

\* The key with the month before the year.
month_year_key_month_first(parts) ==
    IF Len(parts) # 2 THEN <<13, 9999>>
    ELSE <<IF parts[1] \in DOMAIN month_map THEN month_map[parts[1]] ELSE 13, parts[2]>>

month_year_key(parts) ==
    IF Len(parts) # 2 THEN <<9999, 13>>
    ELSE <<parts[2], IF parts[1] \in DOMAIN month_map THEN month_map[parts[1]] ELSE 13>>

\* domains_by_month[month_year].append(domain), keys in insertion order.
RECURSIVE GroupByMonth(_, _)
GroupByMonth(groups, ds) ==
    IF ds = <<>> THEN groups
    ELSE LET d == Head(ds)
             label == MonthYear(d.expiry_date_obj)
         IN  IF ~HasDate(d) THEN GroupByMonth(groups, Tail(ds))
             ELSE IF \E i \in 1..Len(groups) : groups[i].label = label
             THEN GroupByMonth(
                    [i \in 1..Len(groups) |->
                       IF groups[i].label = label
                       THEN [groups[i] EXCEPT !.items = Append(@, d.ID)]
                       ELSE groups[i]],
                    Tail(ds))
             ELSE GroupByMonth(Append(groups, [label |-> label, items |-> <<d.ID>>]), Tail(ds))

\* for month_year in sorted(domains_by_month.keys(), key=month_year_key)
Calendar(ds) ==
    LET groups == GroupByMonth(<<>>, ds)
    IN  Sorted([i \in 1..Len(groups) |->
                  [key |-> month_year_key(groups[i].label), val |-> groups[i]]])

\* The last view; display_domains returns and the script ends.
PrintCalendar ==
    /\ pc = "calendar"
    /\ calendar' = Calendar(sorted_domains)
    /\ views' = Append(views, "calendar")
    /\ Exit(0, None)
    /\ ran' = ran \cup {"calendar"}
    /\ UNCHANGED <<config, fetched, sorted_domains, today, listing, upcoming, stats>>

Next ==
    \/ MainExit
    \/ MainFetch
    \/ Request
    \/ RequestFails
    \/ TransportError
    \/ SaveResponse
    \/ ParseError
    \/ ApiError
    \/ Extract
    \/ DisplayEmpty
    \/ SortDomains
    \/ PrintListing
    \/ PrintUpcoming
    \/ PrintStatistics
    \/ PrintCalendar

Spec == Init /\ [][Next]_vars

(***************************************************************************)
(* Properties.                                                             *)
(***************************************************************************)
\* A required configuration value is missing: not set, or set to nothing.
RequiredValueMissing == \E v \in {API_KEY, API_USER, CLIENT_IP} : v \in {None, ""}

\* get_domains has returned to __main__.
FetcherReturned == pc = "display" \/ "display" \in ran

ReportSteps == {"listing", "upcoming", "statistics", "calendar"}

\* The transport status is 200 and the body is not well-formed XML.
MalformedBody == response.status_code = 200 /\ ~response.text.wellformed

\* The response is accepted and one of its Domain elements lacks the Name or
\* the WhoisGuard attribute.
AcceptedWithoutNameOrGuard ==
    /\ response.status_code = 200
    /\ response.text.wellformed
    /\ response.text.Status = "OK"
    /\ \E i \in 1..Len(response.text.elements) :
          \/ response.text.elements[i].Name = None
          \/ response.text.elements[i].WhoisGuard = None

\* C1 as stated: the exit code is 1 if and only if a required configuration
\* value is missing, and 0 in every other run, whatever the fetch or the
\* parse did.
C1_ExitOneOnlyForConfig ==
    pc = "exited" => exit_code = (IF RequiredValueMissing THEN 1 ELSE 0)

\* C1 amended: the exit code is 1 if and only if a required configuration
\* value is missing or the run is ended by an unhandled exception (the
\* request raises, the body of a 200 response is malformed XML, an accepted
\* response has a Domain element without Name or WhoisGuard); every other
\* run, a non-200 status or a Status other than "OK" included, exits with 0.
C1_ExitCodes ==
    pc = "exited" =>
        /\ exit_code \in {0, 1}
        /\ exit_code = 1 <=>
              \/ RequiredValueMissing
              \/ requests = 1 /\ response = NoResponse
              \/ MalformedBody
              \/ AcceptedWithoutNameOrGuard
        /\ (response.status_code \notin {0, 200}) => exit_code = 0
        /\ (response.status_code = 200 /\ response.text.wellformed
              /\ response.text.Status # "OK") => exit_code = 0

C1_Witness ==
    /\ pc = "exited"
    /\ ~RequiredValueMissing
    /\ MalformedBody
    /\ error = "ParseError"
    /\ exit_code = 1

\* C2: with a required configuration value missing the run ends with exit
\* code 1 at its first step: no HTTP request is issued, the diagnostic file
\* is not written, and neither the parser nor a report view runs.
C2_ConfigMissingAbortsFirst ==
    RequiredValueMissing =>
        /\ pc \in {"main", "exited"}
        /\ pc = "exited" => exit_code = 1
        /\ requests = 0
        /\ response = NoResponse
        /\ file = <<>>
        /\ ran \subseteq {"main"}
        /\ views = <<>>

C2_Witness ==
    /\ RequiredValueMissing
    /\ API_KEY = "set"
    /\ pc = "exited"
    /\ exit_code = 1
    /\ requests = 0

\* C3 as stated: whenever a response arrived and the Fetcher has returned,
\* whatever the transport status, the file holds the response body.
C3_FileHoldsEveryResponse ==
    (FetcherReturned /\ response # NoResponse) => file = <<response.text>>

\* C3 amended: the body is written only for transport status 200.  When the
\* Fetcher has returned after a 200 response, whatever the API status, the
\* file holds that body; after any other status the file is not written.
C3_FileHoldsBodyOf200 ==
    FetcherReturned =>
        /\ response.status_code = 200 => file = <<response.text>>
        /\ response.status_code # 200 => file = <<>>

C3_Witness ==
    /\ FetcherReturned
    /\ response.status_code = 200
    /\ response.text.Status = "ERROR"
    /\ file = <<response.text>>

\* C4: when the transport status is not 200 or the Status attribute is not
\* "OK", the Fetcher returns the empty list whatever Domain elements the
\* response holds, nothing aborts the run, and the Reporter prints the
\* no-domains message and nothing else before the run ends with exit code 0.
C4_RefusedResponseIsEmptyReport ==
    (FetcherReturned /\ (response.status_code # 200 \/ response.text.Status # "OK")) =>
        /\ domains = <<>>
        /\ error = None
        /\ pc \in {"display", "exited"}
        /\ ran \cap ReportSteps = {}
        /\ listing = <<>> /\ upcoming = <<>> /\ calendar = <<>> /\ stats = NoStats
        /\ pc = "display" => views = <<>>
        /\ pc = "exited" => (views = <<"no domains">> /\ exit_code = 0)

C4_Witness ==
    /\ pc = "exited"
    /\ response.status_code = 200
    /\ response.text.Status = "ERROR"
    /\ Len(response.text.elements) > 0
    /\ views = <<"no domains">>
    /\ exit_code = 0

\* The instant of a datetime, in hours.
Instant(dt) == ToOrdinal(dt) * 24 + dt.hour

\* Days to expiry of a record with a parsed date, against the report time.
DaysToExpiry(d) == TimedeltaDays(d.expiry_date_obj, today)

IDsOf(rows) == {rows[i].ID : i \in 1..Len(rows)}

\* C5: the sorted listing is a permutation of the input; the records with a
\* parsed date come before those without, in non-decreasing order of date;
\* records of equal date, and the records without a date, keep their input
\* order (IDs are input positions).
C5_SortedListingStable ==
    ("display" \in ran /\ domains # <<>>) =>
        /\ Len(sorted_domains) = Len(domains)
        /\ \A i \in 1..Len(domains) :
              Cardinality({j \in 1..Len(sorted_domains) : sorted_domains[j] = domains[i]}) = 1
        /\ \A i, j \in 1..Len(sorted_domains) :
              i < j =>
                /\ HasDate(sorted_domains[j]) => HasDate(sorted_domains[i])
                /\ (HasDate(sorted_domains[i]) /\ HasDate(sorted_domains[j])) =>
                      Instant(sorted_domains[i].expiry_date_obj)
                        <= Instant(sorted_domains[j].expiry_date_obj)
                /\ (sorted_domains[i].expiry_date_obj = sorted_domains[j].expiry_date_obj) =>
                      sorted_domains[i].ID < sorted_domains[j].ID

\* Two records written differently that parse to the same date, in input order.
C5_Witness ==
    /\ "display" \in ran
    /\ Len(sorted_domains) = 2
    /\ HasDate(sorted_domains[1])
    /\ sorted_domains[1].expiry_date_obj = sorted_domains[2].expiry_date_obj
    /\ sorted_domains[1].expires # sorted_domains[2].expires
    /\ sorted_domains[1].ID = 1

\* C6: the upcoming-renewals view lists exactly the records with a parsed
\* date whose days to expiry d satisfy 0 < d <= 90, each once, in the order
\* of the sorted listing: d = 0 and d = 91 are left out, d = 90 is in, and a
\* record without a parsed date is never in.
C6_UpcomingIsWindow ==
    "upcoming" \in ran =>
        /\ IDsOf(upcoming) =
              {domains[i].ID : i \in {k \in 1..Len(domains) :
                  /\ parse_date(domains[k].expires) # NoneDate
                  /\ DaysToExpiry(domains[k]) \in 1..90}}
        /\ Cardinality(IDsOf(upcoming)) = Len(upcoming)
        /\ \A i \in 1..Len(domains) :
              /\ ~HasDate(domains[i]) => domains[i].ID \notin IDsOf(upcoming)
              /\ (HasDate(domains[i]) /\ DaysToExpiry(domains[i]) \in {0, 91}) =>
                    domains[i].ID \notin IDsOf(upcoming)
              /\ (HasDate(domains[i]) /\ DaysToExpiry(domains[i]) = 90) =>
                    domains[i].ID \in IDsOf(upcoming)
        /\ \A i \in 1..Len(upcoming) : upcoming[i].days = DaysToExpiry(domains[upcoming[i].ID])

\* A record at d = 90 is listed and a record at d = 91 is not.
C6_Witness ==
    /\ "upcoming" \in ran
    /\ Len(domains) = 2
    /\ HasDate(domains[1]) /\ DaysToExpiry(domains[1]) = 91
    /\ HasDate(domains[2]) /\ DaysToExpiry(domains[2]) = 90
    /\ IDsOf(upcoming) = {2}

\* C7: the statistics view never divides by zero: the percentages are
\* computed only with total > 0, and for the empty list the Reporter returns
\* before the statistics.
C7_NoDivisionByZero ==
    /\ error # "ZeroDivisionError"
    /\ "statistics" \in ran => (Len(domains) > 0 /\ stats.total = Len(domains))
    /\ ("display" \in ran /\ domains = <<>>) =>
          (ran \cap ReportSteps = {} /\ stats = NoStats /\ pc = "exited")

\* The Reporter was given the empty list by an accepted response.
C7_Witness ==
    /\ "display" \in ran
    /\ domains = <<>>
    /\ response.status_code = 200
    /\ response.text.Status = "OK"
    /\ pc = "exited"
    /\ exit_code = 0

\* The IDs of the calendar, read top to bottom.
RECURSIVE Flatten(_)
Flatten(groups) == IF groups = <<>> THEN <<>> ELSE Head(groups).items \o Flatten(Tail(groups))

DatedIDs(ds) ==
    LET sel == SelectSeq(ds, HasDate) IN [i \in 1..Len(sel) |-> sel[i].ID]

\* C8: the calendar read top to bottom is the dated records in the order of
\* the sorted listing; every record is under the group labelled with the
\* month name and year of its parsed date; the groups are in strictly
\* increasing (year, month number) order; undated records are in no group.
C8_CalendarChronological ==
    "calendar" \in ran =>
        /\ Flatten(calendar) = DatedIDs(sorted_domains)
        /\ \A g \in 1..Len(calendar) :
              /\ calendar[g].items # <<>>
              /\ \A k \in 1..Len(calendar[g].items) :
                    LET dt == domains[calendar[g].items[k]].expiry_date_obj
                    IN  /\ dt # NoneDate
                        /\ calendar[g].label = <<MonthNames[dt.month], dt.year>>
        /\ \A g, h \in 1..Len(calendar) :
              g < h =>
                LET a == domains[calendar[g].items[1]].expiry_date_obj
                    b == domains[calendar[h].items[1]].expiry_date_obj
                IN  a.year < b.year \/ (a.year = b.year /\ a.month < b.month)

\* January 2027 comes first in the response and second in the calendar.
C8_Witness ==
    /\ "calendar" \in ran
    /\ Len(calendar) = 2
    /\ calendar[1].label = <<"December", 2025>>
    /\ calendar[2].label = <<"January", 2027>>
    /\ calendar[2].items = <<1>>

\* C9 as stated: a record whose Expires is missing or in none of the four
\* formats never aborts the run: once the listing has run, the record has
\* exactly one row, without annotation, no exception has ended the run, and
\* the run ends having printed the upcoming-renewals, statistics and calendar
\* views, the record counted in the total.
C9_UnparseableNeverAborts ==
    \A i \in 1..Len(domains) :
        ("listing" \in ran /\ parse_date(domains[i].expires) = NoneDate) =>
            /\ error = None
            /\ Cardinality({k \in 1..Len(listing) :
                               listing[k].ID = domains[i].ID /\ listing[k].mark = ""}) = 1
            /\ pc = "exited" =>
                  /\ views = <<"listing", "upcoming", "statistics", "calendar">>
                  /\ stats.total = Len(domains)

\* C10: every listed record with a parsed date has exactly one annotation,
\* decided by its days to expiry d against the one report time: RENEW SOON!
\* iff 0 < d <= 30, EXPIRED! iff d <= 0, the days left iff d > 30; every
\* record marked RENEW SOON! is in the upcoming renewals and no record marked
\* EXPIRED! is.
C10_AnnotationByDays ==
    "listing" \in ran =>
        \A k \in 1..Len(listing) :
            LET d == domains[listing[k].ID] IN
            HasDate(d) =>
                /\ listing[k].days = DaysToExpiry(d)
                /\ listing[k].mark \in {"RENEW SOON!", "EXPIRED!", "days left"}
                /\ listing[k].mark = "RENEW SOON!" <=> DaysToExpiry(d) \in 1..30
                /\ listing[k].mark = "EXPIRED!" <=> DaysToExpiry(d) <= 0
                /\ listing[k].mark = "days left" <=> DaysToExpiry(d) > 30
                /\ "upcoming" \in ran =>
                      /\ listing[k].mark = "RENEW SOON!" => d.ID \in IDsOf(upcoming)
                      /\ listing[k].mark = "EXPIRED!" => d.ID \notin IDsOf(upcoming)

\* A expires in 15 days and B expired 400 days ago.
C10_Witness ==
    /\ "upcoming" \in ran
    /\ Len(listing) = 2
    /\ listing[1].days = 0 - 400 /\ listing[1].mark = "EXPIRED!"
    /\ listing[2].days = 15 /\ listing[2].mark = "RENEW SOON!"
    /\ IDsOf(upcoming) = {listing[2].ID}

====
